---- MODULE Spec2Model ----
(***************************************************************************)
(* Model of the Zillow scraper (Itachi4/webScraping).                      *)
(*                                                                         *)
(* The repository holds the same request handler three times:              *)
(*   "modular" : src/app.ts -> controllers/scraper.controller.ts with      *)
(*               services/zillow.service (kept in puppeteer.service.ts     *)
(*               lines 44-125); the pagination loop always advances.       *)
(*   "paged"   : src/scrape.ts; the pagination loop stops on an empty page *)
(*               and the base URL gets a trailing "/" when it has none.    *)
(*   "single"  : puppeteer.service.ts lines 127-287; one page only, with   *)
(*               beds and baths.                                           *)
(* A server process runs one of them, so the variant is one global value.  *)
(*                                                                         *)
(* Strings whose characters matter (texts, URLs) are sequences of          *)
(* one-character strings.  A JavaScript value that may be null/undefined   *)
(* is a sequence of length at most one: <<>> is null, <<v>> is the value v.*)
(***************************************************************************)
EXTENDS Integers, Sequences, FiniteSets, TLC

(***************************************************************************)
(* Bounds of the model.                                                    *)
(***************************************************************************)
\* Number of requests that may be in flight at once in SpecConc.
NumOps == 2
\* Largest number of property cards on one page in Spec.
MaxPageCards == 1
\* Largest number of property cards on one page in SpecExtract.
MaxCards == 2
\* Largest content height of a page, in scroll increments.
MaxHeightSteps == 2
\* Largest number of result-heading anchors on the search results page.
MaxAnchors == 2
\* Largest content height of a page in SpecScroll, in scroll increments.
MaxScrollSteps == 3

(***************************************************************************)
(* Program constants.                                                      *)
(***************************************************************************)
maxPages == 4
distance == 100
NavigationTimeout == 60000

Null == <<>>
Some(v) == <<v>>
IsNull(x) == x = <<>>
Val(x) == x[1]

(***************************************************************************)
(* String helpers: String.prototype.trim / endsWith / includes.            *)
(***************************************************************************)
IsSpace(c) == c = " "

RECURSIVE TrimStart(_)
TrimStart(s) ==
    IF s # <<>> /\ IsSpace(Head(s)) THEN TrimStart(Tail(s)) ELSE s

RECURSIVE TrimEnd(_)
TrimEnd(s) ==
    IF s # <<>> /\ IsSpace(s[Len(s)])
    THEN TrimEnd(SubSeq(s, 1, Len(s) - 1))
    ELSE s

Trim(s) == TrimEnd(TrimStart(s))

EndsWith(s, suffix) ==
    /\ Len(s) >= Len(suffix)
    /\ SubSeq(s, Len(s) - Len(suffix) + 1, Len(s)) = suffix

Includes(s, sub) ==
    \E i \in 1..(Len(s) - Len(sub) + 1) : SubSeq(s, i, i + Len(sub) - 1) = sub

\* JavaScript truthiness of a string-or-null value: null and "" are falsy.
Truthy(x) == ~IsNull(x) /\ Val(x) # <<>>

\* Mutant of OrNull: ?? in place of ||.
OrNullish(x) == x

\* `x || null` for a string-or-undefined x.
OrNull(x) == IF Truthy(x) THEN x ELSE Null

\* `el?.textContent?.trim() || null`; el is <<>> when querySelector found
\* nothing, else <<text>>.
TrimmedTextOrNull(el) == OrNull(IF IsNull(el) THEN Null ELSE Some(Trim(Val(el))))

(***************************************************************************)
(* new URL(link, baseUrl).href.  A URL is a sequence of tokens: an origin  *)
(* token (scheme and authority) followed by path characters.  A link that  *)
(* starts with an origin is absolute and is kept (the empty path becomes   *)
(* "/"); a link that is a bare scheme has no host and makes the URL        *)
(* constructor throw; any other link is joined to the page's origin.       *)
(***************************************************************************)
ZillowOrigin == "https://www.zillow.com"
OtherOrigin == "https://photos.example"
Origins == {ZillowOrigin, OtherOrigin}
BareScheme == "http://"

UrlParses(link) == Head(link) # BareScheme

NewURLHref(link, origin) ==
    IF Head(link) \in Origins
    THEN (IF Len(link) = 1 THEN link \o <<"/">> ELSE link)
    ELSE IF Head(link) = "/"
         THEN <<origin>> \o link
         ELSE <<origin, "/">> \o link

(***************************************************************************)
(* Listing extraction: the callback given to page.evaluate.                *)
(* A card of the page is a record                                          *)
(*   price, address : <<>> (no such child element) or <<textContent>>       *)
(*   href           : <<>> (no link element, or one with no href           *)
(*                    attribute) or <<attribute value>>                    *)
(*   details        : the textContent of each <li> of the details list     *)
(***************************************************************************)
ExtractLink(card, origin) ==
    IF Truthy(card.href) THEN Some(NewURLHref(Val(card.href), origin)) ELSE Null

LinkThrows(card) == Truthy(card.href) /\ ~UrlParses(Val(card.href))

\* The record pushed for one card by the multi-page variants.
ExtractCard(card, origin) ==
    [price   |-> TrimmedTextOrNull(card.price),
     address |-> TrimmedTextOrNull(card.address),
     link    |-> ExtractLink(card, origin)]

\* The record pushed for one card by the single-page variant.
ExtractCardDetails(card, origin) ==
    [price   |-> TrimmedTextOrNull(card.price),
     address |-> TrimmedTextOrNull(card.address),
     link    |-> ExtractLink(card, origin),
     beds    |-> IF Len(card.details) > 0
                 THEN TrimmedTextOrNull(Some(card.details[1])) ELSE Null,
     baths   |-> IF Len(card.details) > 1
                 THEN TrimmedTextOrNull(Some(card.details[2])) ELSE Null]

ListingOf(card, origin, withDetails) ==
    IF withDetails THEN ExtractCardDetails(card, origin) ELSE ExtractCard(card, origin)

\* results.push(listing)
PushResult(results, listing) == Append(results, listing)

\* cards.forEach(...): the cards in document order; stops at the first card
\* whose link makes `new URL` throw.
RECURSIVE ForEachCard(_, _, _, _)
ForEachCard(cards, origin, withDetails, results) ==
    IF cards = <<>> THEN [threw |-> FALSE, results |-> results]
    ELSE IF LinkThrows(Head(cards)) THEN [threw |-> TRUE, results |-> <<>>]
    ELSE ForEachCard(Tail(cards), origin, withDetails,
                     PushResult(results, ListingOf(Head(cards), origin, withDetails)))

\* The whole callback: on page state dom, either throws or returns results.
EvaluateListings(dom, withDetails) ==
    ForEachCard(dom.cards, dom.origin, withDetails, <<>>)

(***************************************************************************)
(* Search resolution: the callback getZillowURL gives to page.evaluate.    *)
(* An anchor is [text |-> characters, href |-> <<>> or <<attribute>>].     *)
(***************************************************************************)
Zillow == <<"Z", "i", "l", "l", "o", "w">>

\* el.textContent?.includes("Zillow")
AnchorMatches(a) == Includes(a.text, Zillow)

\* Mutant of FindAnchor: the last match in document order.
RECURSIVE FindLastAnchor(_)
FindLastAnchor(anchors) ==
    IF anchors = <<>> THEN Null
    ELSE IF AnchorMatches(anchors[Len(anchors)]) THEN Some(anchors[Len(anchors)])
    ELSE FindLastAnchor(SubSeq(anchors, 1, Len(anchors) - 1))

\* searchResults.find(...): the first match in document order, or <<>>.
RECURSIVE FindAnchor(_)
FindAnchor(anchors) ==
    IF anchors = <<>> THEN Null
    ELSE IF AnchorMatches(Head(anchors)) THEN Some(Head(anchors))
    ELSE FindAnchor(Tail(anchors))

\* zillowResult ? zillowResult.getAttribute("href") : null
EvaluateZillowUrl(anchors) ==
    LET zillowResult == FindAnchor(anchors)
    IN  IF IsNull(zillowResult) THEN Null ELSE Val(zillowResult).href

(***************************************************************************)
(* URLs the handler builds.                                                *)
(***************************************************************************)
BingUrl == <<"https://www.bing.com", "/">>

Digit(n) == <<"0", "1", "2", "3", "4", "5", "6", "7", "8", "9">>[n + 1]

RECURSIVE Decimal(_)
Decimal(n) == IF n < 10 THEN <<Digit(n)>> ELSE Decimal(n \div 10) \o <<Digit(n % 10)>>

\* `${baseUrl}${pageCounter}_p/`
NextPageUrl(base, counter) == base \o Decimal(counter) \o <<"_", "p", "/">>

\* Mutant of WithTrailingSlash: what the comment above the line says, "remove
\* trailing /".
WithoutTrailingSlash(url) ==
    IF EndsWith(url, <<"/">>) THEN SubSeq(url, 1, Len(url) - 1) ELSE url

\* scrape.ts: zillowUrl.endsWith("/") ? zillowUrl : `${zillowUrl}/`
WithTrailingSlash(url) == IF EndsWith(url, <<"/">>) THEN url ELSE url \o <<"/">>

\* The address the handler navigates to after resolution, which is also the
\* base of the pagination addresses.
TargetUrl(v, url) == IF v = "paged" THEN WithTrailingSlash(url) ELSE url

(***************************************************************************)
(* Responses and errors.                                                   *)
(***************************************************************************)
ValidationMessage == "Please provide both \"query\" and \"city\"."
NoLinkMessage(v) ==
    IF v = "modular" THEN "Error: No Zillow link found."
    ELSE "Error: No Zillow link found in search results."
SearchBoxMessage == "Error: Search box not found."

BadRequest == [status |-> 400, error |-> ValidationMessage]
ServerError(msg) == [status |-> 500, error |-> msg]
Success(body, listings) ==
    [status |-> 200, searchQuery |-> Val(body.query), city |-> Val(body.city),
     listings |-> listings]

(***************************************************************************)
(* State.                                                                  *)
(***************************************************************************)
Ops == 1..NumOps
Variants == {"modular", "paged", "single"}

VARIABLES
    variant,      \* which of the three handlers this server runs
    pc,           \* pc[o]: the await the request o is suspended at
    body,         \* body[o]: req.body of request o
    browser,      \* browser[o]: <<>> or <<id of the launched browser>>
    page,         \* page[o]: <<>> or <<id of the browser the page belongs to>>
    navTimeout,   \* navTimeout[o]: the page's default navigation timeout
    userAgent,    \* userAgent[o]: whether setUserAgent was applied
    zillowUrl,    \* zillowUrl[o]: what getZillowURL returned
    baseUrl,      \* baseUrl[o]: the address navigated to after resolution
    pageCounter,  \* pageCounter[o]
    allListings,  \* allListings[o] ("single": the listings returned)
    totalHeight,  \* totalHeight[o] of the running autoScroll
    heightLog,    \* heightLog[o]: document.body.scrollHeight when autoScroll
                  \* was called, then as each of its ticks read it; kept
                  \* until the extraction that follows the call settles
    steps,        \* steps[o]: the awaits of o that have settled, in order
    responses,    \* responses[o]: what was sent on res, in order
    nextId,       \* id the next launched browser process gets
    live,         \* ids of the browser processes that are running
    \* What a fake browser would record (read by the properties only):
    navs,         \* navs[o]: navigations requested, in order
    extracted,    \* extracted[o]: result of each completed extraction
    acquired,     \* acquired[o]: number of browsers launched for o
    released,     \* released[o]: number of browser.close() calls of o
    \* The pure-function harness of SpecExtract:
    exDom,        \* the page state given to the extraction callback
    exOut,        \* <<>> or <<what the callback returned>>
    \* The pure-function harness of SpecResolve:
    rsAnchors,    \* the h2 > a anchors given to the resolver callback
    rsOut         \* <<>> or <<what the callback returned>>

sessionVars == <<browser, page, nextId, live, acquired, released>>
pageVars == <<navTimeout, userAgent>>
urlVars == <<zillowUrl, baseUrl>>
loopVars == <<pageCounter, allListings, totalHeight, heightLog, extracted>>
exVars == <<exDom, exOut, rsAnchors, rsOut>>
vars == <<variant, pc, steps, body, responses, navs, sessionVars, pageVars,
          urlVars, loopVars, exVars>>

(***************************************************************************)
(* Inputs.  A string of the request is a sequence of tokens.               *)
(***************************************************************************)
SeqsUpTo(S, n) == UNION {[1..k -> S] : k \in 0..n}

QueryText == <<"top home listings">>
CityText == <<"New York">>
ValidBody == [query |-> Some(QueryText), city |-> Some(CityText)]
Bodies ==
    [query : {Null, Some(<<>>), Some(QueryText)},
     city  : {Null, Some(<<>>), Some(CityText)}]

TargetPath == <<ZillowOrigin, "/", "n", "y">>
ResultUrls == {TargetPath, TargetPath \o <<"/">>, TargetPath \o <<"/", "/">>}
SampleAnchors ==
    {[text |-> <<"z", "i", "l", "l", "o", "w">>, href |-> Some(<<OtherOrigin, "/">>)],
     [text |-> <<"Z", "I", "L", "L", "O", "W">>, href |-> Some(<<OtherOrigin, "/">>)],
     [text |-> <<"Z", "i", "l", "l", "o", "w">>, href |-> Null],
     [text |-> <<"Z", "i", "l", "l", "o", "w">>, href |-> Some(<<>>)]}
    \cup {[text |-> <<"a", " ">> \o Zillow \o <<"!">>, href |-> Some(u)] : u \in ResultUrls}
AnchorLists == SeqsUpTo(SampleAnchors, MaxAnchors)

CardA == [price |-> Some(<<" ", "$", "5">>), address |-> Null,
          href |-> Some(<<"/", "a">>), details |-> <<>>]
CardB == [price |-> Null, address |-> Some(<<"b">>), href |-> Null,
          details |-> <<<<"2", "b", "d">>>>]
CardBad == [price |-> Null, address |-> Null, href |-> Some(<<BareScheme>>),
            details |-> <<>>]
PageCards == {CardA, CardB, CardBad}
Doms == [origin : {ZillowOrigin}, cards : SeqsUpTo(PageCards, MaxPageCards)]

\* document.body.scrollHeight, as read by one tick.
Heights == {50 * k : k \in 0..(2 * MaxHeightSteps)}

FullInputs ==
    [bodies |-> Bodies, anchorLists |-> AnchorLists, doms |-> Doms,
     heights |-> Heights, startHeights |-> {0}]

\* The inputs of SpecConc: one request body of each kind, one result page of
\* each kind, pages of one card, pages that need one scroll tick.
SmallInputs ==
    [bodies |-> {ValidBody, [ValidBody EXCEPT !.city = Null]},
     anchorLists |-> {<<>>, <<[text |-> Zillow, href |-> Some(TargetPath)]>>},
     doms |-> {[origin |-> ZillowOrigin, cards |-> <<CardA>>]},
     heights |-> {0}, startHeights |-> {0}]

\* The inputs of SpecScroll: one valid request, one result page, pages of
\* one card; the height of a page is any multiple of half a scroll step up
\* to MaxScrollSteps steps, on every tick anew: it can grow, shrink or stay.
ScrollHeights == {(distance \div 2) * k : k \in 0..(2 * MaxScrollSteps)}
StartHeights == {0, distance \div 2}
ScrollInputs ==
    [bodies |-> {ValidBody},
     anchorLists |-> {<<[text |-> Zillow, href |-> Some(TargetPath)]>>},
     doms |-> {[origin |-> ZillowOrigin, cards |-> <<CardA>>]},
     heights |-> ScrollHeights, startHeights |-> StartHeights]

\* The inputs of SpecExtract: every field varied on its own.
SampleTexts ==
    {<<>>, <<" ">>, <<"$", "5">>, <<" ", "$", "5", " ">>, <<"$", " ", "5">>}
SampleHrefs ==
    {<<>>, <<"/", "h">>, <<"h">>, <<ZillowOrigin, "/", "h">>, <<OtherOrigin>>,
     <<BareScheme>>}
SampleDetails ==
    {<<<<"2">>>>, <<<<"2">>, <<" ", "1", " ">>>>, <<<<" ">>, <<"1">>>>,
     <<<<"2">>, <<>>, <<"9">>>>}
BlankCard == [price |-> Null, address |-> Null, href |-> Null, details |-> <<>>]
ExCards ==
    {BlankCard, CardA, CardB}
    \cup {[BlankCard EXCEPT !.price = Some(t)] : t \in SampleTexts}
    \cup {[BlankCard EXCEPT !.address = Some(t)] : t \in SampleTexts}
    \cup {[BlankCard EXCEPT !.href = Some(h)] : h \in SampleHrefs}
    \cup {[BlankCard EXCEPT !.details = d] : d \in SampleDetails}
ExDoms == [origin : {ZillowOrigin}, cards : SeqsUpTo(ExCards, MaxCards)]

(***************************************************************************)
(* Init: the server is listening and no request has arrived.               *)
(***************************************************************************)
NoDom == [origin |-> ZillowOrigin, cards |-> <<>>]

InitOps ==
    /\ pc = [o \in Ops |-> "idle"]
    /\ body = [o \in Ops |-> [query |-> Null, city |-> Null]]
    /\ browser = [o \in Ops |-> Null]
    /\ page = [o \in Ops |-> Null]
    /\ navTimeout = [o \in Ops |-> 0]
    /\ userAgent = [o \in Ops |-> FALSE]
    /\ zillowUrl = [o \in Ops |-> Null]
    /\ baseUrl = [o \in Ops |-> Null]
    /\ pageCounter = [o \in Ops |-> 0]
    /\ allListings = [o \in Ops |-> <<>>]
    /\ totalHeight = [o \in Ops |-> 0]
    /\ heightLog = [o \in Ops |-> <<>>]
    /\ steps = [o \in Ops |-> <<>>]
    /\ responses = [o \in Ops |-> <<>>]
    /\ navs = [o \in Ops |-> <<>>]
    /\ extracted = [o \in Ops |-> <<>>]
    /\ acquired = [o \in Ops |-> 0]
    /\ released = [o \in Ops |-> 0]
    /\ nextId = 1
    /\ live = {}

Init ==
    /\ variant \in Variants
    /\ InitOps
    /\ exDom = NoDom /\ exOut = Null
    /\ rsAnchors = <<>> /\ rsOut = Null

(***************************************************************************)
(* The request handler, one action per await.                              *)
(***************************************************************************)
\* The await o is suspended at settles and o runs to the await `label`; a
\* tick of autoScroll's interval that does not resolve settles nothing.
Goto(o, label) ==
    /\ pc' = [pc EXCEPT ![o] = label]
    /\ steps' = [steps EXCEPT ![o] = IF label = pc[o] THEN @ ELSE Append(@, pc[o])]

\* Mutant of Send: the payload is written twice.
SendTwice(o, response) ==
    responses' = [responses EXCEPT ![o] = Append(Append(@, response), response)]

Send(o, response) == responses' = [responses EXCEPT ![o] = Append(@, response)]

\* Mutant of Catch: the error response also carries the pages collected so far.
CatchPartial(o, message) ==
    /\ Send(o, [status |-> 500, error |-> message, listings |-> allListings[o]])
    /\ Goto(o, "done")

\* catch (error): res.status(500).json({ error: error.toString() })
Catch(o, message) == Send(o, ServerError(message)) /\ Goto(o, "done")

Continue(o, label) == Goto(o, label) /\ UNCHANGED responses

Navigate(o, kind, url) ==
    navs' = [navs EXCEPT ![o] = Append(@, [kind |-> kind, url |-> url])]

\* A page can be driven only while its browser process runs.
PageUsable(o) == ~IsNull(page[o]) /\ Val(page[o]) \in live

\* Mutant of MissingField: && in place of ||.
MissingBoth(b) == ~Truthy(b.query) /\ ~Truthy(b.city)

\* if (!query || !city)
MissingField(b) == ~Truthy(b.query) \/ ~Truthy(b.city)

\* The handler is entered; it runs to its first await or to the 400 response.
Request(o, bodies) ==
    /\ pc[o] = "idle"
    /\ \E b \in bodies :
        /\ body' = [body EXCEPT ![o] = b]
        /\ IF MissingField(b)
           THEN Send(o, BadRequest) /\ Goto(o, "done")
           ELSE Continue(o, "launch")
    /\ UNCHANGED <<variant, navs, sessionVars, pageVars, urlVars, loopVars, exVars>>

\* Mutant of LaunchedId: a browser that is already running is reused.
SharedId == IF live = {} THEN nextId ELSE CHOOSE id \in live : TRUE

\* The id of the process puppeteer.launch starts: a new one on every call.
LaunchedId == nextId

\* Mutant of Launch: a launch that rejects leaves its process running.
LaunchLeavesProcess(o) ==
    /\ pc[o] = "launch"
    /\ \E ok \in BOOLEAN :
        /\ live' = live \cup {LaunchedId}
        /\ nextId' = nextId + 1
        /\ acquired' = [acquired EXCEPT ![o] = @ + 1]
        /\ IF ok
           THEN /\ browser' = [browser EXCEPT ![o] = Some(LaunchedId)]
                /\ Continue(o, "newPage")
           ELSE Catch(o, "LaunchError") /\ UNCHANGED browser
    /\ UNCHANGED <<variant, body, navs, page, released, pageVars, urlVars,
                   loopVars, exVars>>

\* Mutant of Launch: a browser is launched only while none is running.
LaunchAdmitted(o) ==
    /\ pc[o] = "launch"
    /\ live = {}
    /\ \E ok \in BOOLEAN :
        IF ok
        THEN /\ browser' = [browser EXCEPT ![o] = Some(LaunchedId)]
             /\ live' = live \cup {LaunchedId}
             /\ nextId' = nextId + 1
             /\ acquired' = [acquired EXCEPT ![o] = @ + 1]
             /\ Continue(o, "newPage")
        ELSE /\ Catch(o, "LaunchError")
             /\ UNCHANGED <<browser, live, nextId, acquired>>
    /\ UNCHANGED <<variant, body, navs, page, released, pageVars, urlVars,
                   loopVars, exVars>>

\* await launchBrowser() / await puppeteer.launch(...)
Launch(o) ==
    /\ pc[o] = "launch"
    /\ \E ok \in BOOLEAN :
        IF ok
        THEN /\ browser' = [browser EXCEPT ![o] = Some(LaunchedId)]
             /\ live' = live \cup {LaunchedId}
             /\ nextId' = nextId + 1
             /\ acquired' = [acquired EXCEPT ![o] = @ + 1]
             /\ Continue(o, "newPage")
        ELSE /\ Catch(o, "LaunchError")
             /\ UNCHANGED <<browser, live, nextId, acquired>>
    /\ UNCHANGED <<variant, body, navs, page, released, pageVars, urlVars,
                   loopVars, exVars>>

\* await browser.newPage()
NewPage(o) ==
    /\ pc[o] = "newPage"
    /\ IF Val(browser[o]) \in live
       THEN page' = [page EXCEPT ![o] = browser[o]] /\ Continue(o, "setTimeout")
       ELSE Catch(o, "TargetClosed") /\ UNCHANGED page
    /\ UNCHANGED <<variant, body, navs, browser, nextId, live, acquired, released,
                   pageVars, urlVars, loopVars, exVars>>

\* await page.setDefaultNavigationTimeout(60000)
SetDefaultNavigationTimeout(o) ==
    /\ pc[o] = "setTimeout"
    /\ navTimeout' = [navTimeout EXCEPT ![o] = NavigationTimeout]
    /\ Continue(o, IF variant = "modular" THEN "gotoBing" ELSE "setUserAgent")
    /\ UNCHANGED <<variant, body, navs, sessionVars, userAgent, urlVars, loopVars,
                   exVars>>

\* await page.setUserAgent(...): scrape.ts and the single-page variant only.
SetUserAgent(o) ==
    /\ pc[o] = "setUserAgent"
    /\ userAgent' = [userAgent EXCEPT ![o] = TRUE]
    /\ Continue(o, "gotoBing")
    /\ UNCHANGED <<variant, body, navs, sessionVars, navTimeout, urlVars, loopVars,
                   exVars>>

(***************************************************************************)
(* getZillowURL                                                            *)
(***************************************************************************)
\* await page.goto("https://www.bing.com/", ...)
GotoBing(o) ==
    /\ pc[o] = "gotoBing"
    /\ Navigate(o, "search", BingUrl)
    /\ \E ok \in BOOLEAN :
        IF ok /\ PageUsable(o) THEN Continue(o, "delay")
        ELSE Catch(o, "NavigationError")
    /\ UNCHANGED <<variant, body, sessionVars, pageVars, urlVars, loopVars, exVars>>

\* await delay(3000)
Delay(o) ==
    /\ pc[o] = "delay"
    /\ Continue(o, "waitForSelector")
    /\ UNCHANGED <<variant, body, navs, sessionVars, pageVars, urlVars, loopVars,
                   exVars>>

\* await page.waitForSelector(..., { timeout: 15000 })
WaitForSelector(o) ==
    /\ pc[o] = "waitForSelector"
    /\ \E ok \in BOOLEAN :
        IF ok /\ PageUsable(o) THEN Continue(o, "searchBox")
        ELSE Catch(o, "InputNotFound")
    /\ UNCHANGED <<variant, body, navs, sessionVars, pageVars, urlVars, loopVars,
                   exVars>>

\* (await page.$('textarea[name="q"]')) || (await page.$('input[name="q"]'))
SearchBox(o) ==
    /\ pc[o] = "searchBox"
    /\ \E found \in BOOLEAN :
        IF found /\ PageUsable(o) THEN Continue(o, "type")
        ELSE Catch(o, SearchBoxMessage)
    /\ UNCHANGED <<variant, body, navs, sessionVars, pageVars, urlVars, loopVars,
                   exVars>>

\* await searchBox.type(query, { delay: 100 })
Type(o) ==
    /\ pc[o] = "type"
    /\ IF PageUsable(o) THEN Continue(o, "pressEnter") ELSE Catch(o, "TargetClosed")
    /\ UNCHANGED <<variant, body, navs, sessionVars, pageVars, urlVars, loopVars,
                   exVars>>

\* `${query} ${city}`
SearchText(b) == Val(b.query) \o <<" ">> \o Val(b.city)

\* await page.keyboard.press("Enter"): submits the search form.
PressEnter(o) ==
    /\ pc[o] = "pressEnter"
    /\ Navigate(o, "submit", SearchText(body[o]))
    /\ IF PageUsable(o) THEN Continue(o, "waitForNavigation")
       ELSE Catch(o, "TargetClosed")
    /\ UNCHANGED <<variant, body, sessionVars, pageVars, urlVars, loopVars, exVars>>

\* await page.waitForNavigation(...)
WaitForNavigation(o) ==
    /\ pc[o] = "waitForNavigation"
    /\ \E ok \in BOOLEAN :
        IF ok /\ PageUsable(o) THEN Continue(o, "evaluateUrl")
        ELSE Catch(o, "NavigationError")
    /\ UNCHANGED <<variant, body, navs, sessionVars, pageVars, urlVars, loopVars,
                   exVars>>

\* Mutant of NoLink: only null is rejected, an empty href passes.
NoLinkNullOnly(url) == IsNull(url)

\* if (!zillowUrl) throw new Error("No Zillow link found...")
NoLink(url) == ~Truthy(url)

\* const zillowUrl = await page.evaluate(...); return zillowUrl; back in the
\* handler: if (!zillowUrl) throw ...; the base URL; scrapeZillowListings's
\* locals are set when it is entered, after the navigation.
EvaluateUrl(o, anchorLists) ==
    /\ pc[o] = "evaluateUrl"
    /\ IF PageUsable(o)
       THEN \E anchors \in anchorLists :
              LET url == EvaluateZillowUrl(anchors)
              IN  /\ zillowUrl' = [zillowUrl EXCEPT ![o] = url]
                  /\ IF NoLink(url)
                     THEN Catch(o, NoLinkMessage(variant)) /\ UNCHANGED baseUrl
                     ELSE /\ baseUrl' = [baseUrl EXCEPT
                                           ![o] = Some(TargetUrl(variant, Val(url)))]
                          /\ Continue(o, "gotoTarget")
       ELSE Catch(o, "TargetClosed") /\ UNCHANGED urlVars
    /\ UNCHANGED <<variant, body, navs, sessionVars, pageVars, loopVars, exVars>>

\* Mutant of GotoTarget: the first page is extracted without being scrolled.
GotoTargetUnscrolled(o) ==
    /\ pc[o] = "gotoTarget"
    /\ Navigate(o, "target", Val(baseUrl[o]))
    /\ \E ok \in BOOLEAN :
        IF ok /\ PageUsable(o)
        THEN /\ Continue(o, "extract")
             /\ pageCounter' = [pageCounter EXCEPT
                                  ![o] = IF variant = "single" THEN @ ELSE 1]
             /\ allListings' = [allListings EXCEPT ![o] = <<>>]
             /\ totalHeight' = [totalHeight EXCEPT ![o] = 0]
             /\ heightLog' = [heightLog EXCEPT ![o] = <<>>]
        ELSE /\ Catch(o, "NavigationError")
             /\ UNCHANGED <<pageCounter, allListings, totalHeight, heightLog>>
    /\ UNCHANGED <<variant, body, sessionVars, pageVars, urlVars, extracted, exVars>>

\* await page.goto(zillowUrl | baseUrl, ...); then scrapeZillowListings is
\* entered: allListings = [], pageCounter = 1 (the single-page variant has
\* no counter), autoScroll is called.
GotoTarget(o) ==
    /\ pc[o] = "gotoTarget"
    /\ Navigate(o, "target", Val(baseUrl[o]))
    /\ \E ok \in BOOLEAN :
        IF ok /\ PageUsable(o)
        THEN /\ Continue(o, "scroll")
             /\ pageCounter' = [pageCounter EXCEPT
                                  ![o] = IF variant = "single" THEN @ ELSE 1]
             /\ allListings' = [allListings EXCEPT ![o] = <<>>]
             /\ totalHeight' = [totalHeight EXCEPT ![o] = 0]
             /\ heightLog' = [heightLog EXCEPT ![o] = <<>>]
        ELSE /\ Catch(o, "NavigationError")
             /\ UNCHANGED <<pageCounter, allListings, totalHeight, heightLog>>
    /\ UNCHANGED <<variant, body, sessionVars, pageVars, urlVars, extracted, exVars>>

(***************************************************************************)
(* autoScroll: one action per tick of the 300 ms interval.                 *)
(***************************************************************************)
\* Mutant of ScrollDone: the scroll also gives up after two ticks.
ScrollDoneCapped(total, scrollHeight) ==
    total >= scrollHeight \/ total >= 2 * distance

\* if (totalHeight >= document.body.scrollHeight)
ScrollDone(total, scrollHeight) == total >= scrollHeight

\* Mutant of NextTotal: = in place of +=.
NextTotalAssigned(total) == distance

\* totalHeight += distance
NextTotal(total) == total + distance

\* One tick: window.scrollBy(0, distance); totalHeight += distance; the
\* height is read; clearInterval and resolve() when ScrollDone.  The page's
\* height is whatever the page made of it since the tick before (before the
\* first tick: since autoScroll was called, when it was one of startHeights).
ScrollTick(o, heights, startHeights) ==
    /\ pc[o] = "scroll"
    /\ IF PageUsable(o)
       THEN \E scrollHeight \in heights, start \in startHeights :
              /\ totalHeight' = [totalHeight EXCEPT ![o] = NextTotal(@)]
              /\ heightLog' = [heightLog EXCEPT
                                 ![o] = IF @ = <<>> THEN <<start, scrollHeight>>
                                        ELSE Append(@, scrollHeight)]
              /\ IF ScrollDone(totalHeight'[o], scrollHeight)
                 THEN Continue(o, "extract")
                 ELSE Continue(o, "scroll")
       ELSE Catch(o, "TargetClosed") /\ UNCHANGED <<totalHeight, heightLog>>
    /\ UNCHANGED <<variant, body, navs, sessionVars, pageVars, urlVars, pageCounter,
                   allListings, extracted, exVars>>

(***************************************************************************)
(* scrapeZillowListings                                                    *)
(***************************************************************************)
\* Only the single-page variant reads beds and baths.
WithDetails(v) == v = "single"

\* Mutant of StopsOnEmpty: the test is inverted.
StopsOnNonEmpty(v, listings) == v = "paged" /\ Len(listings) # 0

\* Mutant of StopsOnEmpty: the break is missing.
NeverStops(v, listings) == FALSE

\* scrape.ts: if (listings.length === 0) break;
StopsOnEmpty(v, listings) == v = "paged" /\ Len(listings) = 0

\* Mutant of PushAll: unshift in place of push.
UnshiftAll(all, listings) == listings \o all

\* allListings.push(...listings)
PushAll(all, listings) == all \o listings

\* Mutant of LoopContinues: one iteration too many.
LoopContinuesOneMore(counter) == counter <= maxPages + 1

\* Mutant of LoopContinues: < in place of <=.
LoopContinuesStrict(counter) == counter < maxPages

\* while (pageCounter <= maxPages)
LoopContinues(counter) == counter <= maxPages

\* let listings = await page.evaluate(...); then, to the next await:
\* (break) | push, pageCounter++, page.goto is called.
Extract(o, doms) ==
    /\ pc[o] = "extract"
    /\ IF PageUsable(o)
       THEN \E dom \in doms :
              LET r == EvaluateListings(dom, WithDetails(variant))
              IN  IF r.threw
                  THEN /\ Catch(o, "TypeError: Invalid URL")
                       /\ UNCHANGED <<pageCounter, allListings, extracted>>
                  ELSE /\ extracted' = [extracted EXCEPT ![o] = Append(@, r.results)]
                       /\ IF variant = "single"
                          THEN /\ allListings' = [allListings EXCEPT ![o] = r.results]
                               /\ UNCHANGED pageCounter
                               /\ Continue(o, "close")
                          ELSE IF StopsOnEmpty(variant, r.results)
                          THEN /\ UNCHANGED <<pageCounter, allListings>>
                               /\ Continue(o, "close")
                          ELSE /\ allListings' = [allListings EXCEPT
                                                    ![o] = PushAll(@, r.results)]
                               /\ pageCounter' = [pageCounter EXCEPT ![o] = @ + 1]
                               /\ Continue(o, "gotoNext")
       ELSE /\ Catch(o, "TargetClosed")
            /\ UNCHANGED <<pageCounter, allListings, extracted>>
    /\ heightLog' = [heightLog EXCEPT ![o] = <<>>]
    /\ UNCHANGED <<variant, body, navs, sessionVars, pageVars, urlVars, totalHeight,
                   exVars>>

\* Mutant of GotoNext: a page navigation that fails is attempted once more.
GotoNextRetrying(o) ==
    /\ pc[o] = "gotoNext"
    /\ Navigate(o, "page", NextPageUrl(Val(baseUrl[o]), pageCounter[o]))
    /\ \E ok \in BOOLEAN :
        IF ok /\ PageUsable(o)
        THEN IF LoopContinues(pageCounter[o])
             THEN /\ Continue(o, "scroll")
                  /\ totalHeight' = [totalHeight EXCEPT ![o] = 0]
             ELSE Continue(o, "close") /\ UNCHANGED totalHeight
        ELSE /\ IF \E i \in DOMAIN navs[o] :
                      navs[o][i].url = NextPageUrl(Val(baseUrl[o]), pageCounter[o])
                THEN Catch(o, "NavigationError")
                ELSE Continue(o, "gotoNext")
             /\ UNCHANGED totalHeight
    /\ UNCHANGED <<variant, body, sessionVars, pageVars, urlVars, pageCounter,
                   allListings, heightLog, extracted, exVars>>

\* await page.goto(nextPageUrl, ...); then the loop condition.
GotoNext(o) ==
    /\ pc[o] = "gotoNext"
    /\ Navigate(o, "page", NextPageUrl(Val(baseUrl[o]), pageCounter[o]))
    /\ \E ok \in BOOLEAN :
        IF ok /\ PageUsable(o)
        THEN IF LoopContinues(pageCounter[o])
             THEN /\ Continue(o, "scroll")
                  /\ totalHeight' = [totalHeight EXCEPT ![o] = 0]
             ELSE Continue(o, "close") /\ UNCHANGED totalHeight
        ELSE Catch(o, "NavigationError") /\ UNCHANGED totalHeight
    /\ UNCHANGED <<variant, body, sessionVars, pageVars, urlVars, pageCounter,
                   allListings, heightLog, extracted, exVars>>

\* await browser.close()
Close(o) ==
    /\ pc[o] = "close"
    /\ released' = [released EXCEPT ![o] = @ + 1]
    /\ live' = live \ {Val(browser[o])}
    /\ Continue(o, "respond")
    /\ UNCHANGED <<variant, body, navs, browser, page, nextId, acquired, pageVars,
                   urlVars, loopVars, exVars>>

\* res.json({ searchQuery: query, city, listings })
Respond(o) ==
    /\ pc[o] = "respond"
    /\ Send(o, Success(body[o], allListings[o]))
    /\ Goto(o, "done")
    /\ UNCHANGED <<variant, body, navs, sessionVars, pageVars, urlVars, loopVars,
                   exVars>>

Handler(o, in) ==
    \/ Request(o, in.bodies)
    \/ Launch(o)
    \/ NewPage(o)
    \/ SetDefaultNavigationTimeout(o)
    \/ SetUserAgent(o)
    \/ GotoBing(o)
    \/ Delay(o)
    \/ WaitForSelector(o)
    \/ SearchBox(o)
    \/ Type(o)
    \/ PressEnter(o)
    \/ WaitForNavigation(o)
    \/ EvaluateUrl(o, in.anchorLists)
    \/ GotoTarget(o)
    \/ ScrollTick(o, in.heights, in.startHeights)
    \/ Extract(o, in.doms)
    \/ GotoNext(o)
    \/ Close(o)
    \/ Respond(o)

(***************************************************************************)
(* Spec: one request, every input.                                         *)
(***************************************************************************)
Next == Handler(1, FullInputs)

Spec == Init /\ [][Next]_vars

(***************************************************************************)
(* SpecConc: NumOps requests in flight, their steps interleaved.           *)
(***************************************************************************)
NextConc == \E o \in Ops : Handler(o, SmallInputs)

SpecConc == Init /\ [][NextConc]_vars

(***************************************************************************)
(* SpecScroll: one request over pages of every height; the interval timer  *)
(* of autoScroll keeps firing until it is cleared.                         *)
(***************************************************************************)
NextScroll == Handler(1, ScrollInputs)

SpecScroll ==
    /\ Init
    /\ [][NextScroll]_vars
    /\ WF_vars(ScrollTick(1, ScrollInputs.heights, ScrollInputs.startHeights))

(***************************************************************************)
(* SpecExtract: the extraction callback applied to a page state.           *)
(***************************************************************************)
InitExtract ==
    /\ variant \in Variants
    /\ InitOps
    /\ exDom \in ExDoms
    /\ exOut = Null
    /\ rsAnchors = <<>> /\ rsOut = Null

RunExtract ==
    /\ exOut = Null
    /\ exOut' = Some(EvaluateListings(exDom, WithDetails(variant)))
    /\ UNCHANGED <<variant, pc, body, responses, navs, sessionVars, pageVars,
                   urlVars, loopVars, exDom, rsAnchors, rsOut, steps>>

NextExtract == RunExtract

SpecExtract == InitExtract /\ [][NextExtract]_vars

(***************************************************************************)
(* SpecResolve: the resolver callback applied to a list of anchors.        *)
(***************************************************************************)
InitResolve ==
    /\ variant \in Variants
    /\ InitOps
    /\ exDom = NoDom /\ exOut = Null
    /\ rsAnchors \in AnchorLists
    /\ rsOut = Null

RunResolve ==
    /\ rsOut = Null
    /\ rsOut' = Some(EvaluateZillowUrl(rsAnchors))
    /\ UNCHANGED <<variant, pc, body, responses, navs, sessionVars, pageVars,
                   urlVars, loopVars, exDom, exOut, rsAnchors, steps>>

NextResolve == RunResolve

SpecResolve == InitResolve /\ [][NextResolve]_vars

(***************************************************************************)
(* Properties.                                                             *)
(***************************************************************************)
RECURSIVE Flatten(_)
Flatten(ss) == IF ss = <<>> THEN <<>> ELSE Head(ss) \o Flatten(Tail(ss))

NavCount(o, kind) == Cardinality({i \in DOMAIN navs[o] : navs[o][i].kind = kind})

Ended(o) == pc[o] = "done"

\* C1: every operation that acquired a browser session has, when it ends,
\* released it exactly once (release count = acquire count = 1), on the
\* success path and on every failure path.
C1_ReleasedOnEveryExit ==
    \A o \in Ops : (Ended(o) /\ acquired[o] > 0) => (acquired[o] = 1 /\ released[o] = 1)

\* C2: scrapeZillowListings issues at most maxPages (4) page navigations in
\* one operation, whatever the pages hold, in every variant.
C2_AtMostMaxPagesNavigations ==
    \A o \in Ops : NavCount(o, "page") <= maxPages

\* An always-advance operation that ended after exactly maxPages page
\* navigations over a mix of empty and non-empty pages.
C2_Witness ==
    /\ variant = "modular" /\ Ended(1)
    /\ NavCount(1, "page") = maxPages
    /\ \E i, j \in DOMAIN extracted[1] : extracted[1][i] = <<>> /\ extracted[1][j] # <<>>

\* C3: under stop-on-empty, once the extraction of page k is empty, that
\* page is the last one processed, only the k-1 navigations to pages 2..k
\* were ever issued, the aggregate is the concatenation of pages 1..k-1,
\* and the operation can only close the browser and answer with it.
C3_StopOnEmpty ==
    variant = "paged" =>
      \A o \in Ops : \A k \in DOMAIN extracted[o] :
        extracted[o][k] = <<>> =>
          /\ k = Len(extracted[o])
          /\ NavCount(o, "page") = k - 1
          /\ Len(navs[o]) = 3 + (k - 1)
          /\ allListings[o] = Flatten(SubSeq(extracted[o], 1, k - 1))
          /\ pc[o] \in {"close", "respond", "done"}
          /\ Ended(o) => responses[o] = <<Success(body[o], allListings[o])>>

\* Page 2 is empty: the response carries exactly page 1's records and the
\* only page navigation is the one to page 2.
C3_Witness ==
    /\ variant = "paged" /\ Ended(1)
    /\ Len(extracted[1]) = 2 /\ extracted[1][1] # <<>> /\ extracted[1][2] = <<>>
    /\ NavCount(1, "page") = 1
    /\ responses[1][1].listings = extracted[1][1]

SearchNavs(o) ==
    <<[kind |-> "search", url |-> BingUrl],
      [kind |-> "submit", url |-> SearchText(body[o])]>>

\* C4: no step after resolution (target navigation, scroll, extraction,
\* page navigation, close, success response) is ever taken without a
\* resolved URL, and an operation that answered "no link found" has ended
\* with that single error response, having navigated only to the search
\* home page and through the search submit, and having extracted nothing.
C4_NoTargetWithoutUrl ==
    \A o \in Ops :
      /\ (\/ pc[o] \in {"gotoTarget", "scroll", "extract", "gotoNext", "close", "respond"}
          \/ Len(navs[o]) > 2
          \/ extracted[o] # <<>>
          \/ \E i \in DOMAIN responses[o] : responses[o][i].status = 200)
         => Truthy(zillowUrl[o])
      /\ (\E i \in DOMAIN responses[o] :
            responses[o][i] = ServerError(NoLinkMessage(variant)))
         => /\ Ended(o) /\ Len(responses[o]) = 1
            /\ ~Truthy(zillowUrl[o])
            /\ navs[o] = SearchNavs(o)
            /\ extracted[o] = <<>>

\* Resolution found no matching anchor and the operation ended in the error.
C4_Witness ==
    /\ Ended(1) /\ IsNull(zillowUrl[1])
    /\ responses[1] = <<ServerError(NoLinkMessage(variant))>>
    /\ navs[1] = SearchNavs(1)

TargetNavs(o) == {i \in DOMAIN navs[o] : navs[o][i].kind = "target"}

C6_ValidationBeforeCore ==
    \A o \in Ops :
      (pc[o] # "idle" /\ (~Truthy(body[o].query) \/ ~Truthy(body[o].city))) =>
        /\ Ended(o)
        /\ responses[o] = <<BadRequest>>
        /\ acquired[o] = 0 /\ IsNull(browser[o]) /\ IsNull(page[o])
        /\ navs[o] = <<>> /\ IsNull(zillowUrl[o]) /\ extracted[o] = <<>>

\* A request with a query and an empty city was answered 400.
C6_Witness ==
    /\ Truthy(body[1].query) /\ body[1].city = Some(<<>>)
    /\ responses[1] = <<BadRequest>>

\* C7: every response is either a success carrying the concatenation of
\* every page extracted, or an error carrying no listings.
C7_AllOrNothing ==
    \A o \in Ops : \A i \in DOMAIN responses[o] :
      LET r == responses[o][i]
      IN  IF r.status = 200
          THEN /\ DOMAIN r = {"status", "searchQuery", "city", "listings"}
               /\ r.listings = Flatten(extracted[o])
          ELSE DOMAIN r = {"status", "error"}

\* A page navigation failed after two non-empty pages were extracted: the
\* response is the error alone.
C7_Witness ==
    /\ Ended(1) /\ Len(extracted[1]) = 2
    /\ extracted[1][1] # <<>> /\ extracted[1][2] # <<>>
    /\ responses[1] = <<ServerError("NavigationError")>>

\* C8: on every page state the extraction callback returns exactly one
\* record per card, in document order, and a card with nothing to extract
\* gives a record whose fields are all null.
C8_OneListingPerCard ==
    ~IsNull(exOut) =>
      LET r == Val(exOut)
          n == Len(exDom.cards)
      IN  /\ ~r.threw
          /\ Len(r.results) = n
          /\ \A i \in 1..n :
               /\ Len(Trim(IF IsNull(exDom.cards[i].price) THEN <<>>
                           ELSE Val(exDom.cards[i].price))) > 0
                  <=> ~IsNull(r.results[i].price)
               /\ exDom.cards[i] = BlankCard =>
                    \A f \in DOMAIN r.results[i] : IsNull(r.results[i][f])

\* C9: the aggregate is at every point the concatenation, in page order, of
\* what each extraction so far returned; nothing is reordered, removed or
\* deduplicated.
C9_AggregateIsConcatenation ==
    \A o \in Ops : allListings[o] = Flatten(extracted[o])

\* Three pages were processed, the first and third with the same record and
\* the second with another: the aggregate holds all three in that order.
C9_Witness ==
    /\ Len(extracted[1]) = 3
    /\ Len(extracted[1][1]) = 1 /\ Len(extracted[1][2]) = 1
    /\ extracted[1][1] = extracted[1][3] /\ extracted[1][1] # extracted[1][2]
    /\ allListings[1] = extracted[1][1] \o extracted[1][2] \o extracted[1][1]

SessionLive(o) == ~IsNull(browser[o]) /\ Val(browser[o]) \in live

OpState(o) ==
    <<pc[o], body[o], browser[o], page[o], navTimeout[o], userAgent[o],
      zillowUrl[o], baseUrl[o], pageCounter[o], allListings[o], totalHeight[o],
      responses[o], navs[o], extracted[o], acquired[o], released[o],
      heightLog[o], steps[o], SessionLive(o)>>

UsesPage(o) ==
    pc[o] \in {"setTimeout", "setUserAgent", "gotoBing", "delay", "waitForSelector",
               "searchBox", "type", "pressEnter", "waitForNavigation", "evaluateUrl",
               "gotoTarget", "scroll", "extract", "gotoNext", "close"}

SessionsOwned ==
    /\ \A o, p \in Ops :
         (o # p /\ ~IsNull(browser[o]) /\ ~IsNull(browser[p])) => browser[o] # browser[p]
    /\ \A o \in Ops :
         /\ ~IsNull(page[o]) => page[o] = browser[o]
         /\ UsesPage(o) => SessionLive(o)
         /\ \A i \in DOMAIN responses[o] : responses[o][i] # ServerError("TargetClosed")

\* C10: concurrent operations are independent under every interleaving: no
\* two operations hold the same browser or page, an operation's session
\* runs for as long as it drives it, and every step changes the state of
\* one operation only: the aggregate, cursor, session and response of
\* every other operation stay as they were.
C10_OperationsIndependent ==
    /\ []SessionsOwned
    /\ [][\E o \in Ops : \A p \in Ops \ {o} : OpState(p)' = OpState(p)]_vars

\* Two operations ran at once on their own sessions; one failed, and the
\* other went on to its success response.
C10_Witness ==
    /\ Ended(1) /\ responses[1] = <<ServerError("NavigationError")>>
    /\ Ended(2) /\ responses[2][1].status = 200
    /\ acquired[1] = 1 /\ acquired[2] = 1 /\ browser[1] # browser[2]
    /\ Len(allListings[2]) = maxPages

\* C11: the pagination cursor starts at 1 and never exceeds maxPages (4);
\* every next-page address that is navigated to is the base URL followed by
\* the cursor and "_p/" with 2 <= cursor <= 4, so no address of a page beyond
\* maxPages, such as "5_p/", is ever computed or navigated to.
C11_CursorWithinMaxPages ==
    \A o \in Ops :
        /\ (variant # "single" /\ pc[o] = "scroll" /\ NavCount(o, "page") = 0)
             => pageCounter[o] = 1
        /\ pageCounter[o] <= maxPages
        /\ \A i \in DOMAIN navs[o] :
             navs[o][i].kind = "page" =>
               \E c \in 2..maxPages :
                  navs[o][i].url = NextPageUrl(Val(baseUrl[o]), c)

LastStep(o) == steps[o][Len(steps[o])]

\* The await the operation o ended on rejected (or threw).
FailedAt(o, label) == Ended(o) /\ steps[o] # <<>> /\ LastStep(o) = label

NoRepeatedTarget(o) ==
    \A i, j \in DOMAIN navs[o] : navs[o][i].url = navs[o][j].url => i = j

\* C12: no navigation is retried and no failure is recovered from: every
\* navigation target of an operation is attempted at most once; an operation
\* whose navigation to a next page failed has ended with the error response
\* as its only response, and an operation that has ended scrolls, extracts
\* and navigates no more.
C12_NoRetryNoRecovery ==
    /\ [](\A o \in Ops :
            /\ NoRepeatedTarget(o)
            /\ (steps[o] # <<>> /\ LastStep(o) = "gotoNext")
                 => \/ pc[o] \in {"scroll", "close"}
                    \/ /\ Ended(o)
                       /\ responses[o] = <<ServerError("NavigationError")>>)
    /\ [][\A o \in Ops :
            Ended(o) =>
              /\ pc'[o] = pc[o] /\ steps'[o] = steps[o]
              /\ navs'[o] = navs[o] /\ extracted'[o] = extracted[o]
              /\ totalHeight'[o] = totalHeight[o] /\ heightLog'[o] = heightLog[o]
              /\ responses'[o] = responses[o]]_vars

\* The navigation to the third page failed after two pages were extracted.
C12_Witness ==
    /\ FailedAt(1, "gotoNext")
    /\ Len(extracted[1]) = 2 /\ NavCount(1, "page") = 2
    /\ allListings[1] # <<>>
    /\ responses[1] = <<ServerError("NavigationError")>>

\* Number of ticks of the autoScroll call that o runs or has just finished.
Ticks(o) == IF heightLog[o] = <<>> THEN 0 ELSE Len(heightLog[o]) - 1

\* The height read by tick k of that call; tick 0 is the call itself.
HeightAt(o, k) == heightLog[o][k + 1]

\* On every tick so far the page was at least one increment taller than
\* on the tick before it.
GrowsEveryTick(o) ==
    \A k \in 1..Ticks(o) : HeightAt(o, k) - HeightAt(o, k - 1) >= distance

Scrolling(o) == pc[o] = "scroll"

\* The accumulated distance falls short of the height by less on a tick on
\* which the page grew by less than one increment.
SlowGrowthClosesGap ==
    \A o \in Ops :
        (Scrolling(o) /\ Ticks(o) >= 1 /\ Ticks(o)' = Ticks(o) + 1
         /\ HeightAt(o, Ticks(o))' - HeightAt(o, Ticks(o)) < distance)
          => (HeightAt(o, Ticks(o))' - totalHeight'[o]
                < HeightAt(o, Ticks(o)) - totalHeight[o])

\* C13 as claimed: autoScroll terminates when the height stops growing or
\* grows by less than 100 px per tick; while the height has grown by at
\* least 100 px on every tick the call has not completed and the operation
\* has sent no response.
C13_ScrollTermination ==
    /\ \A o \in Ops : Scrolling(o) ~> ~Scrolling(o)
    /\ [][SlowGrowthClosesGap]_vars
    /\ [](\A o \in Ops :
            (Ticks(o) >= 1 /\ GrowsEveryTick(o))
              => (Scrolling(o) /\ responses[o] = <<>>))

\* C13, amended: autoScroll terminates when the height stops growing or
\* grows by less than 100 px per tick; while the height has grown by at
\* least 100 px on every tick and the first tick read more than 100 px, the
\* call has not completed and the operation has sent no response.
C13_ScrollTerminationAboveFirstStep ==
    /\ \A o \in Ops : Scrolling(o) ~> ~Scrolling(o)
    /\ [][SlowGrowthClosesGap]_vars
    /\ [](\A o \in Ops :
            (Ticks(o) >= 1 /\ GrowsEveryTick(o) /\ HeightAt(o, 1) > distance)
              => (Scrolling(o) /\ responses[o] = <<>>))

\* Two ticks on a page that grew by 100 px before each: still scrolling.
C13_Witness ==
    /\ Ticks(1) = 2 /\ GrowsEveryTick(1) /\ HeightAt(1, 1) > distance
    /\ totalHeight[1] = 2 * distance /\ Scrolling(1)

\* C14: every tick adds exactly 100 to the accumulated distance and reads
\* the height anew; autoScroll completes at the first tick whose accumulated
\* distance is at least the height read on that tick, on no earlier tick,
\* and no tick follows it; a call that has completed made at least one
\* tick, also on a page of height 0.
C14_ScrollTicks ==
    \A o \in Ops :
        /\ (Scrolling(o) /\ Ticks(o) = 0) => totalHeight[o] = 0
        /\ Ticks(o) >= 1 => totalHeight[o] = Ticks(o) * 100
        /\ \A k \in 1..(Ticks(o) - 1) : k * 100 < HeightAt(o, k)
        /\ (Scrolling(o) /\ Ticks(o) >= 1)
             => Ticks(o) * 100 < HeightAt(o, Ticks(o))
        /\ pc[o] = "extract"
             => (Ticks(o) >= 1 /\ Ticks(o) * 100 >= HeightAt(o, Ticks(o)))

\* A call that completed on its third tick, the page having grown from 0 to
\* 150 px and then to 250 px.
C14_Witness ==
    /\ pc[1] = "extract" /\ Ticks(1) = 3 /\ totalHeight[1] = 300
    /\ HeightAt(1, 0) = 0 /\ HeightAt(1, 1) = 150 /\ HeightAt(1, 2) = 250

RECURSIVE StripTrailingSlashes(_)
StripTrailingSlashes(url) ==
    IF url # <<>> /\ url[Len(url)] = "/"
    THEN StripTrailingSlashes(SubSeq(url, 1, Len(url) - 1))
    ELSE url

\* C15: whatever the resolved URL ends with (no separator, one, several),
\* the base URL that the pagination suffix is appended to ends with exactly
\* one "/", so every next-page address is the resolved URL without its
\* trailing separators, then "/", the cursor and "_p/" (for any cursor the
\* loop produces, 2 to maxPages + 1).
C15_OneTrailingSeparator ==
    \A o \in Ops : \A i \in DOMAIN navs[o] :
        navs[o][i].kind = "page" =>
          \E c \in 2..(maxPages + 1) :
             navs[o][i].url =
               StripTrailingSlashes(Val(zillowUrl[o])) \o <<"/">> \o Decimal(c)
                 \o <<"_", "p", "/">>

\* Every occurrence of the step b in steps[o] comes right after one of as.
RightAfter(o, as, b) ==
    \A j \in DOMAIN steps[o] :
        steps[o][j] = b => (j > 1 /\ steps[o][j - 1] \in as)

\* Every occurrence of the step b in steps[o] has the step a before it.
After(o, a, b) ==
    \A j \in DOMAIN steps[o] :
        steps[o][j] = b => \E i \in 1..(j - 1) : steps[o][i] = a

Navigations == {"gotoBing", "pressEnter", "gotoTarget", "gotoNext"}

\* C16: the steps of one operation happen one at a time and in order: the
\* session is acquired and the 60 s navigation timeout is set before the
\* first navigation; the resolution has completed before the navigation to
\* the target; in every pagination iteration the scroll completes before
\* the extraction and the extraction before the next navigation; on success
\* the session is released after pagination has ended and before the
\* response is sent.  The only step that settles is the one the operation
\* is suspended at.
C16_StepsSequential ==
    /\ [](\A o \in Ops :
            /\ \A n \in Navigations :
                 After(o, "launch", n) /\ After(o, "setTimeout", n)
            /\ navs[o] # <<>>
                 => (acquired[o] = 1 /\ navTimeout[o] = NavigationTimeout)
            /\ RightAfter(o, {"evaluateUrl"}, "gotoTarget")
            /\ RightAfter(o, {"gotoTarget", "gotoNext"}, "scroll")
            /\ RightAfter(o, {"scroll"}, "extract")
            /\ RightAfter(o, {"extract"}, "gotoNext")
            /\ RightAfter(o, {"extract", "gotoNext"}, "close")
            /\ RightAfter(o, {"close"}, "respond")
            /\ Len(navs[o]) = Cardinality({j \in DOMAIN steps[o] :
                                             steps[o][j] \in Navigations})
            /\ Len(extracted[o]) <= Cardinality({j \in DOMAIN steps[o] :
                                                   steps[o][j] = "extract"})
            /\ (\E i \in DOMAIN responses[o] : responses[o][i].status = 200)
                 => (released[o] = 1 /\ After(o, "close", "respond")))
    /\ [][\A o \in Ops :
            \/ steps'[o] = steps[o] /\ pc'[o] = pc[o]
            \/ steps'[o] = Append(steps[o], pc[o]) /\ pc'[o] # pc[o]]_vars

\* A successful operation over two pages in the stop-on-empty variant.
C16_Witness ==
    /\ variant = "paged" /\ Ended(1)
    /\ steps[1] = <<"idle", "launch", "newPage", "setTimeout", "setUserAgent",
                    "gotoBing", "delay", "waitForSelector", "searchBox", "type",
                    "pressEnter", "waitForNavigation", "evaluateUrl",
                    "gotoTarget", "scroll", "extract", "gotoNext", "scroll",
                    "extract", "close", "respond">>
    /\ responses[1][1].status = 200 /\ released[1] = 1

ContainsZillow(text) ==
    \E i \in 1..(Len(text) - 5) :
        SubSeq(text, i, i + 5) = <<"Z", "i", "l", "l", "o", "w">>

MatchingAnchors == {i \in DOMAIN rsAnchors : ContainsZillow(rsAnchors[i].text)}

FirstMatching == CHOOSE i \in MatchingAnchors : \A j \in MatchingAnchors : i <= j

\* C17 as claimed: for every list of h2 > a anchors the resolver returns the
\* href of the first anchor, in document order, whose text contains
\* "Zillow" in exactly this case, and it returns null if and only if no
\* anchor matches.
C17_FirstMatchOrAbsentIff ==
    rsOut # Null =>
      /\ MatchingAnchors # {} => Val(rsOut) = rsAnchors[FirstMatching].href
      /\ IsNull(Val(rsOut)) <=> MatchingAnchors = {}

\* C17, amended: for every list of h2 > a anchors the resolver returns the
\* href attribute of the first anchor, in document order, whose text
\* contains "Zillow" in exactly this case, and null if no anchor matches;
\* it returns null exactly when no anchor matches or the first match has
\* no href attribute.
C17_FirstMatchHref ==
    rsOut # Null =>
      /\ MatchingAnchors # {} => Val(rsOut) = rsAnchors[FirstMatching].href
      /\ MatchingAnchors = {} => IsNull(Val(rsOut))
      /\ IsNull(Val(rsOut))
           <=> (MatchingAnchors = {} \/ IsNull(rsAnchors[FirstMatching].href))

\* Two anchors match; the href of the first one is returned, not the second's.
C17_Witness ==
    /\ rsOut # Null /\ MatchingAnchors = {1, 2}
    /\ rsAnchors[1].href # rsAnchors[2].href
    /\ Val(rsOut) = Some(TargetPath) /\ rsAnchors[1].href = Some(TargetPath)

\* C18: an operation whose browser launch failed has ended with the error
\* response as its only response and no session ever existed for it: no
\* browser and no page, the resolver was not invoked, nothing was navigated
\* to, scrolled or extracted, and nothing was released (acquire count =
\* release count = 0).
C18_LaunchFailureAborts ==
    \A o \in Ops :
        (steps[o] # <<>> /\ LastStep(o) = "launch" /\ pc[o] # "newPage")
          => /\ Ended(o)
             /\ responses[o] = <<ServerError("LaunchError")>>
             /\ IsNull(browser[o]) /\ IsNull(page[o])
             /\ acquired[o] = 0 /\ released[o] = 0
             /\ navs[o] = <<>> /\ IsNull(zillowUrl[o])
             /\ extracted[o] = <<>> /\ heightLog[o] = <<>>
             /\ steps[o] = <<"idle", "launch">>

\* A valid request whose launch failed.
C18_Witness ==
    /\ FailedAt(1, "launch")
    /\ body[1] = ValidBody
    /\ responses[1] = <<ServerError("LaunchError")>>
    /\ live = {}

\* The operations that hold a browser session they have not closed.
Holders == {o \in Ops : ~IsNull(browser[o]) /\ released[o] = 0}

\* C19: nothing limits the number of sessions: an operation that has reached
\* puppeteer.launch can always start its browser, however many browsers are
\* running, and every browser started and not closed is running, one per
\* operation; so all NumOps operations can hold a live session at once.
C19_NoAdmissionLimit ==
    /\ \A o \in Ops :
         pc[o] = "launch" => ENABLED (Launch(o) /\ ~IsNull(browser'[o]))
    /\ live = {Val(browser[o]) : o \in Holders}
    /\ Cardinality(live) = Cardinality(Holders)

\* Every request is in flight and holds a running browser of its own.
C19_Witness ==
    /\ Cardinality(live) = NumOps
    /\ \A o \in Ops : SessionLive(o) /\ ~Ended(o)
    /\ \A o, p \in Ops : browser[o] = browser[p] => o = p

FifthPageUrl(o) == Val(baseUrl[o]) \o <<"5", "_", "p", "/">>

LastNav(o) == navs[o][Len(navs[o])]

C21_ExactlyOneResponse ==
    /\ [](\A o \in Ops :
            /\ Len(responses[o]) <= 1
            /\ Ended(o) <=> Len(responses[o]) = 1
            /\ Ended(o) =>
                 LET r == responses[o][1]
                 IN  /\ r.status \in {200, 400, 500}
                     /\ r.status = 400 <=> MissingField(body[o])
                     /\ r.status = 200 <=> LastStep(o) = "respond"
                     /\ r.status = 200 =>
                          (r = Success(body[o], allListings[o]) /\ released[o] = 1)
                     /\ r.status = 400 => r = BadRequest
                     /\ r.status = 500 =>
                          (DOMAIN r = {"status", "error"}
                           /\ LastStep(o) \notin {"idle", "respond"}))
    /\ [][\A o \in Ops :
            responses'[o] # responses[o]
              => (responses[o] = <<>> /\ Len(responses'[o]) = 1)]_vars

\* A request answered 200 after a complete scrape.
C21_Witness ==
    /\ Ended(1) /\ LastStep(1) = "respond"
    /\ Len(responses[1]) = 1 /\ responses[1][1].status = 200
    /\ responses[1][1].listings # <<>>
    /\ Len(extracted[1]) >= 2

\* C22: in the stop-on-empty variant an operation whose first target page
\* has no card navigates to no further page and extracts nothing more; it
\* only closes the browser and answers 200 with an empty listings array,
\* never with an error.
C22_EmptyFirstPageSucceeds ==
    variant = "paged" =>
      \A o \in Ops :
        (extracted[o] # <<>> /\ extracted[o][1] = <<>>) =>
          /\ Len(extracted[o]) = 1
          /\ NavCount(o, "page") = 0
          /\ LastNav(o).kind = "target"
          /\ allListings[o] = <<>>
          /\ pc[o] \in {"close", "respond", "done"}
          /\ pc[o] \in {"respond", "done"} => released[o] = 1 /\ ~SessionLive(o)
          /\ Ended(o) => responses[o] = <<Success(body[o], <<>>)>>

\* The first page was empty and the request was answered 200 with no listing.
C22_Witness ==
    /\ variant = "paged" /\ Ended(1)
    /\ extracted[1] = <<<<>>>>
    /\ NavCount(1, "page") = 0 /\ released[1] = 1
    /\ responses[1] = <<[status |-> 200, searchQuery |-> QueryText,
                         city |-> CityText, listings |-> <<>>]>>

ListingFields(listing) == {listing[f] : f \in DOMAIN listing}

\* The element is there and its text is empty once trimmed.
BlankText(el) == ~IsNull(el) /\ Trim(Val(el)) = <<>>

\* C23: no field of an emitted listing is the empty string: a price, address,
\* beds or baths element whose trimmed text is empty, and a link element
\* whose href is empty, give a null field, as a missing element does.
C23_NoEmptyStringField ==
    (~IsNull(exOut) /\ ~Val(exOut).threw) =>
      LET results == Val(exOut).results
      IN  /\ Len(results) = Len(exDom.cards)
          /\ \A i \in DOMAIN results :
               LET card == exDom.cards[i]
                   listing == results[i]
               IN  /\ Some(<<>>) \notin ListingFields(listing)
                   /\ BlankText(card.price) => IsNull(listing.price)
                   /\ BlankText(card.address) => IsNull(listing.address)
                   /\ card.href = Some(<<>>) => IsNull(listing.link)
                   /\ WithDetails(variant) =>
                        /\ (Len(card.details) > 0 /\ Trim(card.details[1]) = <<>>)
                             => IsNull(listing.beds)
                        /\ (Len(card.details) > 1 /\ Trim(card.details[2]) = <<>>)
                             => IsNull(listing.baths)

\* The single-page variant extracted a card whose price is blank and a card
\* whose baths item is empty: both fields are null.
C23_Witness ==
    /\ variant = "single" /\ ~IsNull(exOut) /\ ~Val(exOut).threw
    /\ Len(exDom.cards) = 2
    /\ exDom.cards[1].price = Some(<<" ">>)
    /\ IsNull(Val(exOut).results[1].price)
    /\ Len(exDom.cards[2].details) = 3 /\ exDom.cards[2].details[2] = <<>>
    /\ IsNull(Val(exOut).results[2].baths)
    /\ ~IsNull(Val(exOut).results[2].beds)

====
